---- MODULE Spec2Model ----
(***************************************************************************)
(* talklocal: a live microphone feed is streamed to a speech recogniser,   *)
(* each recognised alternative is translated, written as a subtitle cue    *)
(* (WebVTT or SRT) and, when final, appended to the transcript and         *)
(* translated text files.                                                  *)
(*                                                                         *)
(* The model follows the source: process_request.py (the session, the      *)
(* transcript handler, the in-memory store), audio_handler.py (the capture *)
(* callback and the microphone generator), generate_subtitle.py (the cue   *)
(* writers and the timing estimate), generate_output.py (the text files)   *)
(* and translate_transcript.py (the translation request).                  *)
(*                                                                         *)
(* Texts are sequences of one-character strings, so that str.isdigit, the  *)
(* regular expressions of calculate_end_time and int() are computed on     *)
(* the characters.  Times are milliseconds; the wall clock is the variable *)
(* now and a subtitle timestamp is a time of day.                          *)
(***************************************************************************)
EXTENDS Integers, Sequences, FiniteSets, TLC

\* --------------------------------------------------------------- bounds
\* Transcript events the recognition service delivers in one session.
MaxEvents == 2
\* Result alternatives handled in one session (over all events).
MaxCues == 2
\* Audio frames the capture callback delivers in one session.
MaxFrames == 2
\* Steps of the wall clock in one session, each of TickMs milliseconds.
\* The longest text given to calculate_end_time when it is taken alone.
MaxLen == 3
\* The most lines an SRT file holds before generate_srt_subtitle is called
\* alone.
MaxLines == 2
\* The most pairs stored in the two logs of a TranscriptDataHandler taken
\* alone, and the most snapshots its getters hand out.
MaxStores == 3
MaxSnapshots == 2
MaxTicks == 1
TickMs == 500
\* The wall clock when the session starts: 23:59:59.500, so that a session
\* holds instants before and after midnight.
ClockStart == 86399500

\* ------------------------------------------------------------ constants
MsPerDay == 24 * 60 * 60 * 1000

\* calculate_end_time(..., average_words_per_minute=150)
AverageWordsPerMinute == 150

\* Python's None (an option that was not given).
NoneVal == "<None>"

\* ------------------------------------------------------- configuration
\* core.py hands the command line's strings to UserInput as they are.
\* (source, target): the same code, the same code in another case, the
\* alias the handler names, and two different languages.
LanguagePairs == {<<"es", "es">>, <<"es", "ES">>, <<"en-US", "en">>, <<"en-US", "es">>}
SubtitleFormats == {"VTT", "srt", NoneVal}
OutputFormats == {"transcript_text", "translated_text", "both_text", "none", NoneVal}

\* str.lower() on the strings of the configuration.
Lower(s) ==
    CASE s = "en-US" -> "en-us"
      [] s = "ES" -> "es"
      [] s = "VTT" -> "vtt"
      [] OTHER -> s

\* -------------------------------------------------------------- texts
Hi == <<"H", "i">>
Ho == <<"H", "o">>
Seven == <<"7">>

\* What the recogniser returns as the transcript of an alternative.
TranscriptTexts == {Hi, Seven}

\* The translation service's answer for a text (numerals stay numerals).
TranslatedText(text) == IF text = Hi THEN Ho ELSE text

DigitChar == <<"0", "1", "2", "3", "4", "5", "6", "7", "8", "9">>
Digits == {DigitChar[i] : i \in 1..10}
Letters == {"H", "i", "o", "W", "E", "B", "V", "T", "Z", "a", "e", "l", "w", "r", "d"}
WordChars == Digits \cup Letters \cup {"_"}
PunctuationChars == {".", ",", "?", "!"}
SentenceEndChars == {".", "!", "?"}

\* str.isdigit(): not empty and every character a digit.
IsDigit(s) == s # <<>> /\ \A i \in 1..Len(s) : s[i] \in Digits

\* str.strip(): leading and trailing blanks removed.
RECURSIVE Strip(_)
Strip(s) ==
    IF s = <<>> THEN s
    ELSE IF Head(s) = " " THEN Strip(Tail(s))
    ELSE IF s[Len(s)] = " " THEN Strip(SubSeq(s, 1, Len(s) - 1))
    ELSE s

DigitValue(c) == CHOOSE d \in 0..9 : DigitChar[d + 1] = c

\* int(s) of a digit string.
RECURSIVE IntOf(_)
IntOf(s) ==
    IF s = <<>> THEN 0
    ELSE 10 * IntOf(SubSeq(s, 1, Len(s) - 1)) + DigitValue(s[Len(s)])

\* f"{n}" of a natural number.
RECURSIVE Decimal(_)
Decimal(n) ==
    IF n < 10 THEN <<DigitChar[n + 1]>>
    ELSE Decimal(n \div 10) \o <<DigitChar[(n % 10) + 1]>>

Pad2(n) == <<DigitChar[((n \div 10) % 10) + 1], DigitChar[(n % 10) + 1]>>
Pad3(n) == <<DigitChar[((n \div 100) % 10) + 1]>> \o Pad2(n % 100)

\* strftime("%H:%M:%S.%f")[:-3] of a time of day in milliseconds.
FormatTime(ms) ==
    Pad2(ms \div 3600000) \o <<":">> \o Pad2((ms \div 60000) % 60) \o <<":">>
        \o Pad2((ms \div 1000) % 60) \o <<".">> \o Pad3(ms % 1000)

\* The word count taken as len(text.split()): the runs of non-blank
\* characters.
WordCount_whitespace(text) ==
    Cardinality({i \in 1..Len(text) :
        text[i] # " " /\ (i = 1 \/ text[i - 1] = " ")})

\* len(re.findall(r'\w+', text)): the maximal runs of word characters.
WordCount(text) ==
    Cardinality({i \in 1..Len(text) :
        text[i] \in WordChars /\ (i = 1 \/ text[i - 1] \notin WordChars)})

\* len(re.findall(r'[.,?!]', text))
PunctuationCount(text) ==
    Cardinality({i \in 1..Len(text) : text[i] \in PunctuationChars})

\* len(re.split(r'[.!?]', text)): one segment more than separators.
SentenceCount(text) ==
    Cardinality({i \in 1..Len(text) : text[i] \in SentenceEndChars}) + 1

\* additional_seconds of calculate_end_time, in milliseconds.
DurationMs(text) ==
    WordCount(text) * (60000 \div AverageWordsPerMinute)
        + PunctuationCount(text) * 1200
        + SentenceCount(text) * 3000

\* calculate_end_time: the start time of day plus the duration, formatted
\* as a time of day again (strftime drops the date).
calculate_end_time(start, text) == (start + DurationMs(text)) % MsPerDay

\* datetime.now() as a time of day in milliseconds.
TimeOfDay(t) == t % MsPerDay

\* generate_vtt_subtitle: strftime("%H:%M:%S") + ".000".
VttStartTime(t) == (TimeOfDay(t) \div 1000) * 1000

\* generate_srt_subtitle: strftime("%H:%M:%S.%f")[:-3].
SrtStartTime(t) == TimeOfDay(t)

\* ------------------------------------------------------ subtitle files
\* A file is the sequence of its lines.  A line is kept by what was written
\* and read back (get_next_cue_number) by its characters, LineContent.
HeaderLine == [kind |-> "header"]
BlankLine == [kind |-> "blank"]
IndexLine(n) == [kind |-> "index", n |-> n]
TimingLine(start, end) == [kind |-> "timing", start |-> start, end |-> end]
TextLine(text) == [kind |-> "text", text |-> text]

LineContent(line) ==
    CASE line.kind = "header" -> <<"W", "E", "B", "V", "T", "T">>
      [] line.kind = "blank" -> <<>>
      [] line.kind = "index" -> Decimal(line.n)
      [] line.kind = "timing" ->
            FormatTime(line.start) \o <<" ", "-", "-", ">", " ">>
                \o FormatTime(line.end) \o <<"Z">>
      [] line.kind = "text" -> line.text

\* get_next_cue_number reading the first digit line of the file.
get_next_cue_number_first(lines) ==
    IF Len(lines) = 0 THEN <<1>>
    ELSE LET digitLines == {i \in 1..Len(lines) : IsDigit(Strip(LineContent(lines[i])))}
         IN  IF digitLines = {} THEN <<>>
             ELSE LET first == CHOOSE i \in digitLines : \A j \in digitLines : i <= j
                  IN  <<IntOf(Strip(LineContent(lines[first]))) + 1>>

\* get_next_cue_number: the last line that is a digit string once stripped,
\* plus one; 1 for a file without lines; None (the empty sequence here,
\* <<n>> for the number n) for a file with lines and no such line.
get_next_cue_number(lines) ==
    IF Len(lines) = 0 THEN <<1>>
    ELSE LET digitLines == {i \in 1..Len(lines) : IsDigit(Strip(LineContent(lines[i])))}
         IN  IF digitLines = {} THEN <<>>
             ELSE LET last == CHOOSE i \in digitLines : \A j \in digitLines : j <= i
                  IN  <<IntOf(Strip(LineContent(lines[last]))) + 1>>

\* generate_srt_subtitle writing a final cue only.
generate_srt_subtitle_final_only(file, t, translated_text, partial_flag) ==
    IF partial_flag THEN file
    ELSE LET start_time == SrtStartTime(t)
             end_time == calculate_end_time(start_time, translated_text)
             next == get_next_cue_number(file)
             cue == IF Len(file) = 0 \/ next = <<>> THEN 1 ELSE next[1]
         IN  file \o <<IndexLine(cue), TimingLine(start_time, end_time),
                       TextLine(translated_text), BlankLine>>

\* generate_srt_subtitle: the file after the cue is appended at wall clock t;
\* partial_flag is received and not read.
generate_srt_subtitle(file, t, translated_text, partial_flag) ==
    LET start_time == SrtStartTime(t)
        end_time == calculate_end_time(start_time, translated_text)
        file_empty == Len(file) = 0
        next == get_next_cue_number(file)
        cue == IF file_empty \/ next = <<>> THEN 1 ELSE next[1]
    IN  file \o <<IndexLine(cue), TimingLine(start_time, end_time),
                  TextLine(translated_text), BlankLine>>

\* generate_vtt_subtitle writing the header on every call.
generate_vtt_subtitle_header_always(file, t, translated_text, partial_flag) ==
    LET start_time == VttStartTime(t)
        end_time == calculate_end_time(start_time, translated_text)
    IN  file \o <<HeaderLine, BlankLine>>
             \o <<TimingLine(start_time, end_time), TextLine(translated_text)>>

\* generate_vtt_subtitle: the file after the cue is appended at wall clock t;
\* partial_flag is received and not read.
generate_vtt_subtitle(file, t, translated_text, partial_flag) ==
    LET start_time == VttStartTime(t)
        end_time == calculate_end_time(start_time, translated_text)
        file_empty == Len(file) = 0
    IN  file \o (IF file_empty THEN <<HeaderLine, BlankLine>> ELSE <<>>)
             \o <<TimingLine(start_time, end_time), TextLine(translated_text)>>

\* _store_text_file skipping a text the file already ends with.
store_text_file_dedup(file, text_content) ==
    IF file # <<>> /\ file[Len(file)] = text_content THEN file
    ELSE Append(file, text_content)

\* OutputGenerator._store_text_file: the text and a line break are appended.
\* _store_text_file opening the file with "w": earlier entries are lost.
store_text_file_overwrite(file, text_content) == <<text_content>>

\* _store_text_file: the file is opened with "a" and one entry is written.
store_text_file(file, text_content) == Append(file, text_content)

\* ---------------------------------------------------------------- state
VARIABLES
    \* UserInput
    source_language, target_language, subtitle_format, output_format,
    \* the wall clock, in milliseconds
    now,
    \* basic_transcribe: where it is, what it returned, what it raised
    spc, retval, surfaced,
    \* write_chunks and AudioHandler: the task's position and error, the
    \* capture device, the frames delivered by the callback, the callbacks
    \* pending in the event loop, the queue, the frame write_chunks holds,
    \* the audio events sent
    wpc, werr, device, captured, loopReady, input_queue, inHand, sentAudio,
    \* handle_events and TranscriptHandler: the task's position and error,
    \* the events received, the current result's is_partial, the alternatives
    \* handled so far (a history: what was received and when)
    epc, eerr, nEvents, is_partial, alts,
    \* Translate.translate_text: the requests made
    translateCalls,
    \* the files
    vttFile, srtFile, transcriptFile, translatedFile,
    \* TranscriptDataHandler
    transcript_data, translated_data,
    \* a call of SubtitleGenerator.calculate_end_time taken alone: where it
    \* is, its arguments start_time and text, and what it returned
    cpc, cet_start, cet_text, cet_end,
    \* a call of SubtitleGenerator.generate_srt_subtitle taken alone on a
    \* file that may have content: where it is
    srt_call,
    \* UserInput.from_input_data taken alone: the dictionary given and the
    \* UserInput built (or the failure)
    input_data, user_input,
    \* a TranscriptDataHandler used alone: the lists its getters returned,
    \* as the callers hold them
    snapshots

configVars == <<source_language, target_language, subtitle_format, output_format>>
sessionVars == <<spc, retval, surfaced>>
audioVars == <<wpc, werr, device, captured, loopReady, input_queue, inHand, sentAudio>>
eventVars == <<epc, eerr, nEvents, is_partial, alts>>
fileVars == <<vttFile, srtFile, transcriptFile, translatedFile>>
storeVars == <<transcript_data, translated_data>>
timingVars == <<cpc, cet_start, cet_text, cet_end>>
unitVars == <<srt_call, input_data, user_input, snapshots>>
vars == <<configVars, now, sessionVars, audioVars, eventVars, translateCalls,
          fileVars, storeVars, timingVars, unitVars>>

NoError == [class |-> "none"]
NoFrame == [seq |-> 0, status |-> "ok"]
Pending == [kind |-> "pending"]
ReturnedNone == [kind |-> "none"]

\* process_request has built the AudioHandler and the TranscriptDataHandler
\* and calls basic_transcribe; the subtitle and text files are new.
InitRun ==
    /\ now = ClockStart
    /\ spc = "starting" /\ retval = Pending /\ surfaced = NoError
    /\ wpc = "created" /\ werr = NoError /\ device = "closed"
    /\ captured = <<>> /\ loopReady = <<>> /\ input_queue = <<>>
    /\ inHand = NoFrame /\ sentAudio = <<>>
    /\ epc = "created" /\ eerr = NoError /\ nEvents = 0
    /\ is_partial = FALSE /\ alts = <<>>
    /\ translateCalls = 0
    /\ vttFile = <<>>
    /\ transcriptFile = <<>> /\ translatedFile = <<>>
    /\ transcript_data = <<>> /\ translated_data = <<>>

InitSession == InitRun /\ srtFile = <<>>

\* No call of calculate_end_time alone; none of generate_srt_subtitle, of
\* from_input_data and of the TranscriptDataHandler alone.
NoTimingCall == cpc = "idle" /\ cet_start = 0 /\ cet_text = <<>> /\ cet_end = 0
NoInput == [source_language |-> <<>>, target_language |-> <<>>]
NoUserInput == [status |-> "none", source_language |-> <<>>, target_language |-> <<>>]
NoUnitCall ==
    /\ srt_call = "idle"
    /\ input_data = NoInput /\ user_input = NoUserInput
    /\ snapshots = <<>>

Init ==
    /\ \E pair \in LanguagePairs :
        source_language = pair[1] /\ target_language = pair[2]
    /\ subtitle_format \in SubtitleFormats
    /\ output_format \in OutputFormats
    /\ InitSession
    /\ NoTimingCall /\ NoUnitCall

\* ------------------------------------------------------------ session
\* The event loop runs one callback or task step at a time, and
\* handle_transcript_event holds no await: while an event is being handled
\* nothing else runs on the loop (the capture thread and the clock do).
LoopFree == epc \notin {"event", "result"}

\* client.start_stream_transcription returned; the handler is built and
\* asyncio.gather schedules write_chunks and handler.handle_events.
StartStream ==
    /\ spc = "starting"
    /\ spc' = "streaming" /\ wpc' = "start" /\ epc' = "waiting"
    /\ UNCHANGED <<configVars, timingVars, unitVars, now, retval, surfaced, werr, device, captured,
                   loopReady, input_queue, inHand, sentAudio, eerr, nEvents,
                   is_partial, alts, translateCalls, fileVars, storeVars>>

\* basic_transcribe's except branch: a TranscriptionError is built and
\* dropped (there is no raise), and None is returned.
ReturnFromExcept ==
    /\ spc' = "returned"
    /\ retval' = ReturnedNone
    /\ surfaced' = surfaced

\* client.start_stream_transcription raised.
StartStreamFails ==
    /\ spc = "starting"
    /\ ReturnFromExcept
    /\ UNCHANGED <<configVars, timingVars, unitVars, now, audioVars, eventVars, translateCalls,
                   fileVars, storeVars>>

\* asyncio.gather hands the first exception of either task to
\* basic_transcribe; the other task is left running.
GatherRaises ==
    /\ spc = "streaming" /\ LoopFree
    /\ wpc = "failed" \/ epc = "failed"
    /\ ReturnFromExcept
    /\ UNCHANGED <<configVars, timingVars, unitVars, now, audioVars, eventVars, translateCalls,
                   fileVars, storeVars>>

\* asyncio.run, once main returned: the tasks still running are cancelled,
\* the microphone generator is closed (its finally stops the device) and
\* the loop is closed.
LoopShutdown ==
    /\ spc = "returned" /\ LoopFree
    /\ spc' = "closed"
    /\ wpc' = IF wpc \in {"start", "get", "send"} THEN "cancelled" ELSE wpc
    /\ epc' = IF epc = "waiting" THEN "cancelled" ELSE epc
    /\ device' = IF device = "started" THEN "stopped" ELSE device
    /\ UNCHANGED <<configVars, timingVars, unitVars, now, retval, surfaced, werr, captured, loopReady,
                   input_queue, inHand, sentAudio, eerr, nEvents, is_partial,
                   alts, translateCalls, fileVars, storeVars>>

\* The wall clock moves on.  The program reads it only where a cue is
\* written (datetime.now() in generate_vtt_subtitle and
\* generate_srt_subtitle), so time passes here just before a reading.
Tick ==
    /\ epc = "result" /\ Len(alts) < MaxCues
    /\ now < ClockStart + MaxTicks * TickMs
    /\ now' = now + TickMs
    /\ UNCHANGED <<configVars, timingVars, unitVars, sessionVars, audioVars, eventVars, translateCalls,
                   fileVars, storeVars>>

\* ------------------------------------------------- the transcript handler
\* same_languages comparing the codes as given, without lower().
same_languages_exact ==
    \/ source_language = target_language
    \/ (source_language = "en-US" /\ target_language = "en")

\* same_languages of handle_transcript_event.
same_languages ==
    \/ Lower(source_language) = Lower(target_language)
    \/ (source_language = "en-US" /\ target_language = "en")

\* store_transcript_text without TRANSCRIPT_TEXT in its list.
store_transcript_text_both_only == output_format \in {"both_text"}

store_transcript_text == output_format \in {"transcript_text", "both_text"}

\* store_translated_text without BOTH_TEXT in its list.
store_translated_text_only == output_format \in {"translated_text"}

store_translated_text == output_format \in {"translated_text", "both_text"}

\* The subtitle file the configured format selects.
WritesVtt == subtitle_format # NoneVal /\ Lower(subtitle_format) = "vtt"

\* The TranscriptionError that leaves handle_transcript_event: built from a
\* message alone, so original_error is None; Python keeps the exception
\* that was being handled as its context.
TranscriptionError(inner) ==
    [class |-> "TranscriptionError", original_error |-> NoneVal, context |-> inner]

\* An exception of a collaborator that is not wrapped on its way.
RawError(class) == [class |-> class, original_error |-> NoneVal, context |-> "none"]

FailPoints == {"none", "translate", "subtitle", "transcript", "translated"}

\* handle_events took the next event from the output stream and calls
\* handle_transcript_event, which builds its Translate, SubtitleGenerator
\* and OutputGenerator and enters the loop over the results.
ReceiveEvent ==
    /\ epc = "waiting" /\ spc \in {"streaming", "returned"}
    /\ nEvents < MaxEvents
    /\ epc' = "event" /\ nEvents' = nEvents + 1
    /\ UNCHANGED <<configVars, timingVars, unitVars, now, sessionVars, audioVars, eerr, is_partial, alts,
                   translateCalls, fileVars, storeVars>>

\* The event is handed to handle_transcript_event and Translate(), built
\* before the try statement, raises: boto3.client fails on the profile, the
\* configuration file or the credentials it reads at every construction. No
\* except clause covers the constructors, so the exception leaves the
\* handler as it is.
TranslateInitFails ==
    /\ epc = "waiting" /\ spc \in {"streaming", "returned"}
    /\ nEvents < MaxEvents
    /\ epc' = "failed" /\ nEvents' = nEvents + 1
    /\ eerr' = RawError("BotoCoreError")
    /\ UNCHANGED <<configVars, timingVars, unitVars, now, sessionVars, audioVars, is_partial, alts,
                   translateCalls, fileVars, storeVars>>

\* for result in results
NextResult ==
    /\ epc = "event"
    /\ \E p \in BOOLEAN : is_partial' = p
    /\ epc' = "result"
    /\ UNCHANGED <<configVars, timingVars, unitVars, now, sessionVars, audioVars, eerr, nEvents, alts,
                   translateCalls, fileVars, storeVars>>

\* handle_transcript_event going on with the next alternative after an
\* exception of the loop body.
AfterAlternative_resume(outcome) == "result"

\* Where handle_events is after the body of the loop: any exception leaves
\* the loops and handle_transcript_event (except ... raise), and the task
\* ends with it.
AfterAlternative(outcome) == IF outcome = "none" THEN "result" ELSE "failed"

\* The text files are reached regardless of the cue.
Persists_without_cue(cueWritten, partial) == ~partial

\* The text files are reached when the subtitle call returned and the
\* result is not partial.
Persists(cueWritten, partial) == cueWritten /\ ~partial

\* for alt in result.alternatives: the body of the loop for one alternative.
\* fail names the collaborator call that raises (none: no call raises).
HandleAlternative ==
    /\ epc = "result"
    /\ Len(alts) < MaxCues
    /\ \E transcript_text \in TranscriptTexts, fail \in FailPoints :
        LET translates == ~same_languages
            trFails == translates /\ fail = "translate"
            translated_text ==
                IF same_languages THEN transcript_text
                ELSE TranslatedText(transcript_text)
            subFails == ~trFails /\ (subtitle_format = NoneVal \/ fail = "subtitle")
            cueWritten == ~trFails /\ ~subFails
            persists == Persists(cueWritten, is_partial)
            tFails == persists /\ store_transcript_text /\ fail = "transcript"
            tWritten == persists /\ store_transcript_text /\ ~tFails
            xFails == persists /\ ~tFails /\ store_translated_text
                        /\ fail = "translated"
            xWritten == persists /\ ~tFails /\ store_translated_text /\ ~xFails
            outcome ==
                CASE trFails -> "translate"
                  [] subFails -> "subtitle"
                  [] tFails -> "transcript"
                  [] xFails -> "translated"
                  [] OTHER -> "none"
            inner ==
                CASE trFails -> "TranslationError"
                  [] subFails -> IF subtitle_format = NoneVal THEN "AttributeError"
                                 ELSE "SubtitlingError"
                  [] OTHER -> "OutputGenerationError"
        IN  /\ outcome = fail \/ (fail = "none" /\ outcome = "subtitle")
            /\ translateCalls' = IF translates THEN translateCalls + 1
                                 ELSE translateCalls
            /\ vttFile' = IF cueWritten /\ WritesVtt
                          THEN generate_vtt_subtitle(vttFile, now, translated_text, is_partial)
                          ELSE vttFile
            /\ srtFile' = IF cueWritten /\ ~WritesVtt
                          THEN generate_srt_subtitle(srtFile, now, translated_text, is_partial)
                          ELSE srtFile
            /\ transcriptFile' = IF tWritten
                                 THEN store_text_file(transcriptFile, transcript_text)
                                 ELSE transcriptFile
            /\ translatedFile' = IF xWritten
                                 THEN store_text_file(translatedFile, translated_text)
                                 ELSE translatedFile
            /\ alts' = Append(alts,
                    [event |-> nEvents, text |-> transcript_text,
                     is_partial |-> is_partial,
                     translated |-> IF trFails THEN <<>> ELSE translated_text,
                     at |-> now, outcome |-> outcome])
            /\ epc' = AfterAlternative(outcome)
            /\ eerr' = IF outcome = "none" THEN eerr ELSE TranscriptionError(inner)
    /\ UNCHANGED <<configVars, timingVars, unitVars, now, sessionVars, audioVars, nEvents, is_partial,
                   storeVars>>

\* The alternatives of the result are exhausted.
EndResult ==
    /\ epc = "result"
    /\ epc' = "event" /\ is_partial' = FALSE
    /\ UNCHANGED <<configVars, timingVars, unitVars, now, sessionVars, audioVars, eerr, nEvents,
                   alts, translateCalls, fileVars, storeVars>>

\* The results of the event are exhausted: handle_transcript_event returns
\* and handle_events awaits the next event.
EndEvent ==
    /\ epc = "event"
    /\ epc' = "waiting"
    /\ UNCHANGED <<configVars, timingVars, unitVars, now, sessionVars, audioVars, eerr, nEvents,
                   is_partial, alts, translateCalls, fileVars, storeVars>>

\* The service closed the output stream: handle_events returns.
StreamClosed ==
    /\ epc = "waiting" /\ spc \in {"streaming", "returned"}
    /\ epc' = "done"
    /\ UNCHANGED <<configVars, timingVars, unitVars, now, sessionVars, audioVars, eerr, nEvents,
                   is_partial, alts, translateCalls, fileVars, storeVars>>

\* The output stream raised (a transport failure): handle_events ends with
\* the stream's exception.
EventStreamFails ==
    /\ epc = "waiting" /\ spc \in {"streaming", "returned"}
    /\ epc' = "failed" /\ eerr' = RawError("TransportError")
    /\ UNCHANGED <<configVars, timingVars, unitVars, now, sessionVars, audioVars, nEvents,
                   is_partial, alts, translateCalls, fileVars, storeVars>>

\* ------------------------------------------- capture and write_chunks
\* What the device reports with a frame (sounddevice's CallbackFlags).
FrameStatuses == {"ok", "input overflow"}

\* mic_stream, first step: the RawInputStream is built and started, and the
\* generator awaits the queue.
MicStart ==
    /\ wpc = "start" /\ LoopFree /\ spc \in {"streaming", "returned"}
    /\ device' = "started" /\ wpc' = "get"
    /\ UNCHANGED <<configVars, timingVars, unitVars, now, sessionVars, werr, captured, loopReady,
                   input_queue, inHand, sentAudio, eventVars, translateCalls,
                   fileVars, storeVars>>

\* The device cannot be opened: RawInputStream or start() raises, outside
\* mic_stream's try, and write_chunks ends with that exception.
MicStartFails ==
    /\ wpc = "start" /\ LoopFree /\ spc \in {"streaming", "returned"}
    /\ wpc' = "failed" /\ werr' = RawError("PortAudioError")
    /\ UNCHANGED <<configVars, timingVars, unitVars, now, sessionVars, device, captured, loopReady,
                   input_queue, inHand, sentAudio, eventVars, translateCalls,
                   fileVars, storeVars>>

\* callback putting into a queue of one place and waiting while it is taken.
Callback_waits ==
    /\ device = "started"
    /\ Len(captured) < MaxFrames
    /\ loopReady = <<>> /\ input_queue = <<>>
    /\ \E status \in FrameStatuses :
        LET frame == [seq |-> Len(captured) + 1, status |-> status]
        IN  /\ captured' = Append(captured, frame)
            /\ loopReady' = Append(loopReady, frame)
    /\ UNCHANGED <<configVars, timingVars, unitVars, now, sessionVars, wpc, werr, device,
                   input_queue, inHand, sentAudio, eventVars, translateCalls,
                   fileVars, storeVars>>

\* callback dropping the frame when one is already waiting.
Callback_drops ==
    /\ device = "started"
    /\ Len(captured) < MaxFrames
    /\ \E status \in FrameStatuses :
        LET frame == [seq |-> Len(captured) + 1, status |-> status]
        IN  /\ captured' = Append(captured, frame)
            /\ loopReady' = IF loopReady = <<>> /\ input_queue = <<>>
                             THEN Append(loopReady, frame) ELSE loopReady
    /\ UNCHANGED <<configVars, timingVars, unitVars, now, sessionVars, wpc, werr, device,
                   input_queue, inHand, sentAudio, eventVars, translateCalls,
                   fileVars, storeVars>>

\* AudioHandler.callback, on the capture thread: the frame is handed to the
\* loop with call_soon_threadsafe(input_queue.put_nowait, ...).
Callback ==
    /\ device = "started"
    /\ Len(captured) < MaxFrames
    /\ \E status \in FrameStatuses :
        LET frame == [seq |-> Len(captured) + 1, status |-> status]
        IN  /\ captured' = Append(captured, frame)
            /\ loopReady' = Append(loopReady, frame)
    /\ UNCHANGED <<configVars, timingVars, unitVars, now, sessionVars, wpc, werr, device, input_queue,
                   inHand, sentAudio, eventVars, translateCalls, fileVars,
                   storeVars>>

\* The loop running the newest pending callback first.
LoopRunCallback_newest_first ==
    /\ loopReady # <<>> /\ LoopFree /\ spc # "closed"
    /\ input_queue' = Append(input_queue, loopReady[Len(loopReady)])
    /\ loopReady' = SubSeq(loopReady, 1, Len(loopReady) - 1)
    /\ UNCHANGED <<configVars, timingVars, unitVars, now, sessionVars, wpc, werr, device, captured,
                   inHand, sentAudio, eventVars, translateCalls, fileVars,
                   storeVars>>

\* The loop runs the oldest pending callback: put_nowait on the unbounded
\* queue.
LoopRunCallback ==
    /\ loopReady # <<>> /\ LoopFree /\ spc # "closed"
    /\ input_queue' = Append(input_queue, Head(loopReady))
    /\ loopReady' = Tail(loopReady)
    /\ UNCHANGED <<configVars, timingVars, unitVars, now, sessionVars, wpc, werr, device, captured,
                   inHand, sentAudio, eventVars, translateCalls, fileVars,
                   storeVars>>

\* mic_stream: input_queue.get() returns and the frame is yielded to
\* write_chunks, which awaits send_audio_event.
MicGet ==
    /\ wpc = "get" /\ LoopFree
    /\ input_queue # <<>>
    /\ inHand' = Head(input_queue)
    /\ input_queue' = Tail(input_queue)
    /\ wpc' = "send"
    /\ UNCHANGED <<configVars, timingVars, unitVars, now, sessionVars, werr, device, captured,
                   loopReady, sentAudio, eventVars, translateCalls, fileVars,
                   storeVars>>

\* write_chunks: send_audio_event(audio_chunk=chunk) returned.
SendAudio ==
    /\ wpc = "send" /\ LoopFree
    /\ sentAudio' = Append(sentAudio, inHand.seq)
    /\ inHand' = NoFrame
    /\ wpc' = "get"
    /\ UNCHANGED <<configVars, timingVars, unitVars, now, sessionVars, werr, device, captured,
                   loopReady, input_queue, eventVars, translateCalls, fileVars,
                   storeVars>>

\* write_chunks: send_audio_event raised (a transport failure); the
\* generator stays suspended at its yield, the device started.
SendAudioFails ==
    /\ wpc = "send" /\ LoopFree
    /\ wpc' = "failed" /\ werr' = RawError("TransportError")
    /\ UNCHANGED <<configVars, timingVars, unitVars, now, sessionVars, device, captured, loopReady,
                   input_queue, inHand, sentAudio, eventVars, translateCalls,
                   fileVars, storeVars>>

\* ------------------------------------------------------- specifications
SessionStep ==
    \/ StartStream
    \/ StartStreamFails
    \/ GatherRaises
    \/ LoopShutdown

HandlerStep ==
    \/ ReceiveEvent
    \/ TranslateInitFails
    \/ NextResult
    \/ HandleAlternative
    \/ EndResult
    \/ EndEvent
    \/ StreamClosed
    \/ EventStreamFails

CaptureStep ==
    \/ MicStart
    \/ Callback
    \/ LoopRunCallback
    \/ MicGet
    \/ SendAudio
    \/ SendAudioFails

\* The whole program.
Next == SessionStep \/ HandlerStep \/ MicStartFails \/ CaptureStep \/ Tick

\* The session while the device delivers no frame: every configuration,
\* every event.
NextPipeline == SessionStep \/ HandlerStep \/ Tick

Spec == Init /\ [][NextPipeline]_vars

\* The session while the service delivers no event: every configuration,
\* every frame.
NextBridge ==
    SessionStep \/ CaptureStep \/ MicStartFails \/ StreamClosed \/ EventStreamFails

SpecBridge == Init /\ [][NextBridge]_vars

\* The session of one configuration with capture and event handling
\* together: frames arrive while the loop is busy with an event.
InitBusy ==
    /\ source_language = "en-US" /\ target_language = "es"
    /\ subtitle_format = "VTT" /\ output_format = "none"
    /\ InitSession
    /\ NoTimingCall /\ NoUnitCall

NextBusy == SessionStep \/ HandlerStep \/ CaptureStep

SpecBusy == InitBusy /\ [][NextBusy]_vars

\* The session of one configuration under fair scheduling: the capture
\* thread delivers the frame it has, the event loop runs every callback and
\* every task step that is ready, and asyncio.run finishes once main returned.
\* Nothing obliges the service or the device to fail or to close the stream.
Scheduling ==
    /\ WF_vars(StartStream)
    /\ WF_vars(MicStart)
    /\ WF_vars(Callback)
    /\ WF_vars(LoopRunCallback)
    /\ WF_vars(MicGet)
    /\ WF_vars(SendAudio)
    /\ WF_vars(GatherRaises)
    /\ WF_vars(LoopShutdown)

SpecBridgeFair == InitBusy /\ [][NextBridge]_vars /\ Scheduling

\* ------------------------------------------- from_input_data alone
\* The values of the enumerations of models.py.
SourceLanguageCodes == {"en-US"}
TargetLanguageCodes ==
    {"af", "sq", "am", "ar", "hy", "az", "bn", "bs", "bg", "ca", "zh",
     "zh-TW", "hr", "cs", "da", "fa-AF", "nl", "et", "fa", "tl", "fi",
     "fr", "fr-CA", "ka", "de", "el", "gu", "ht", "ha", "he", "hi", "hu",
     "is", "id", "ga", "it", "ja", "kn", "kk", "ko", "lv", "lt", "mk",
     "ms", "ml", "mt", "mr", "mn", "ps", "pl", "pt", "pt-PT", "pa", "ro",
     "ru", "sr", "si", "sk", "sl", "so", "es", "es-MX", "sw", "sv", "ta",
     "te", "th", "tr", "uk", "ur", "uz", "vi", "cy"}
SubtitleFormatValues == {"srt", "vtt"}
OutputFormatValues == {"transcript_text", "translated_text", "both_text", "none"}

\* The values of SourceLanguage and of TargetLanguage in the order of their
\* definition, each as its characters.
SourceLanguageValues == <<<<"e", "n", "-", "U", "S">>>>
TargetLanguageValues ==
    <<<<"a", "f">>, <<"s", "q">>, <<"a", "m">>, <<"a", "r">>, <<"h", "y">>,
      <<"a", "z">>, <<"b", "n">>, <<"b", "s">>, <<"b", "g">>, <<"c", "a">>,
      <<"z", "h">>, <<"z", "h", "-", "T", "W">>, <<"h", "r">>, <<"c", "s">>,
      <<"d", "a">>, <<"f", "a", "-", "A", "F">>, <<"n", "l">>, <<"e", "t">>,
      <<"f", "a">>, <<"t", "l">>, <<"f", "i">>, <<"f", "r">>,
      <<"f", "r", "-", "C", "A">>, <<"k", "a">>, <<"d", "e">>, <<"e", "l">>,
      <<"g", "u">>, <<"h", "t">>, <<"h", "a">>, <<"h", "e">>, <<"h", "i">>,
      <<"h", "u">>, <<"i", "s">>, <<"i", "d">>, <<"g", "a">>, <<"i", "t">>,
      <<"j", "a">>, <<"k", "n">>, <<"k", "k">>, <<"k", "o">>, <<"l", "v">>,
      <<"l", "t">>, <<"m", "k">>, <<"m", "s">>, <<"m", "l">>, <<"m", "t">>,
      <<"m", "r">>, <<"m", "n">>, <<"p", "s">>, <<"p", "l">>, <<"p", "t">>,
      <<"p", "t", "-", "P", "T">>, <<"p", "a">>, <<"r", "o">>, <<"r", "u">>,
      <<"s", "r">>, <<"s", "i">>, <<"s", "k">>, <<"s", "l">>, <<"s", "o">>,
      <<"e", "s">>, <<"e", "s", "-", "M", "X">>, <<"s", "w">>, <<"s", "v">>,
      <<"t", "a">>, <<"t", "e">>, <<"t", "h">>, <<"t", "r">>, <<"u", "k">>,
      <<"u", "r">>, <<"u", "z">>, <<"v", "i">>, <<"c", "y">>>>

\* Python's `sub in s` on strings.
Contains(s, sub) ==
    \E i \in 0..Len(s) : i + Len(sub) <= Len(s) /\ SubSeq(s, i + 1, i + Len(sub)) = sub

\* get_language_enum: the first member whose value contains the code; None
\* (the empty sequence here, <<v>> for the member of value v) when the loop
\* ends without one.
get_language_enum(enum_class, language_code) ==
    LET found == {i \in 1..Len(enum_class) : Contains(enum_class[i], language_code)}
    IN  IF found = {} THEN <<>>
        ELSE <<enum_class[CHOOSE i \in found : \A j \in found : i <= j]>>

\* The codes given: every value of the enumerations, and codes that are
\* none: the empty code, a single letter, a code in capitals, unknown codes.
SourceCodesGiven ==
    {SourceLanguageValues[i] : i \in 1..Len(SourceLanguageValues)}
        \cup {<<"e", "n">>, <<"e", "s">>}
TargetCodesGiven ==
    {TargetLanguageValues[i] : i \in 1..Len(TargetLanguageValues)}
        \cup {<<>>, <<"f">>, <<"E", "S">>, <<"e", "n">>, <<"x", "x">>}
SubtitleFormatsGiven == {"vtt", "VTT"}
OutputFormatsGiven == {"none", "all"}

\* UserInput.from_input_data is about to be called with a dictionary.
InitInput ==
    /\ InitSession /\ NoTimingCall
    /\ srt_call = "idle" /\ snapshots = <<>>
    /\ source_language = NoneVal /\ target_language = NoneVal
    /\ subtitle_format \in SubtitleFormatsGiven
    /\ output_format \in OutputFormatsGiven
    /\ \E src \in SourceCodesGiven, tgt \in TargetCodesGiven :
        input_data = [source_language |-> src, target_language |-> tgt]
    /\ user_input = NoUserInput

\* from_input_data returns a UserInput or raises: AttributeError for
\* None.value when a lookup found no member, ValueError from
\* SubtitleFormat(...) or OutputFormat(...) for a string that is no value.
FromInputData ==
    /\ user_input.status = "none" /\ input_data # NoInput
    /\ LET src == get_language_enum(SourceLanguageValues, input_data.source_language)
           tgt == get_language_enum(TargetLanguageValues, input_data.target_language)
       IN  user_input' =
            IF src = <<>> \/ tgt = <<>>
                \/ subtitle_format \notin SubtitleFormatValues
                \/ output_format \notin OutputFormatValues
            THEN [status |-> "failed", source_language |-> <<>>,
                  target_language |-> <<>>]
            ELSE [status |-> "built", source_language |-> src[1],
                  target_language |-> tgt[1]]
    /\ UNCHANGED <<configVars, timingVars, now, sessionVars, audioVars, eventVars,
                   translateCalls, fileVars, storeVars, srt_call, input_data,
                   snapshots>>

NextInput == FromInputData

SpecInput == InitInput /\ [][NextInput]_vars

\* ------------------------------------- TranscriptDataHandler alone
\* A list a getter returned: the log it was read from, the contents the log
\* had then, the contents the list has now, whether it is the store's own
\* list object, and whether its holder has changed it.
Snapshot(log, list, alias) ==
    [log |-> log, taken |-> list, value |-> list, alias |-> alias,
     mutated |-> FALSE]

\* get_transcript_data returning self.transcript_data itself.
get_transcript_data_alias == Snapshot("transcript", transcript_data, TRUE)

\* get_transcript_data: self.transcript_data[:], a new list.
get_transcript_data == Snapshot("transcript", transcript_data, FALSE)

\* get_translated_data: self.translated_data[:], a new list.
get_translated_data == Snapshot("translated", translated_data, FALSE)

\* A list object changed: every reference to it sees the change.
SameObject(snaps, log, list) ==
    [i \in 1..Len(snaps) |->
        IF snaps[i].alias /\ snaps[i].log = log
        THEN [snaps[i] EXCEPT !.value = list]
        ELSE snaps[i]]

StoredPairs == {<<text, partial>> : text \in TranscriptTexts, partial \in BOOLEAN}

InitStore == InitBusy

store_transcript_data ==
    /\ Len(transcript_data) + Len(translated_data) < MaxStores
    /\ \E pair \in StoredPairs :
        /\ transcript_data' = Append(transcript_data, pair)
        /\ snapshots' = SameObject(snapshots, "transcript", transcript_data')
    /\ UNCHANGED <<configVars, timingVars, now, sessionVars, audioVars, eventVars,
                   translateCalls, fileVars, translated_data, srt_call,
                   input_data, user_input>>

store_translated_data ==
    /\ Len(transcript_data) + Len(translated_data) < MaxStores
    /\ \E pair \in StoredPairs :
        /\ translated_data' = Append(translated_data, pair)
        /\ snapshots' = SameObject(snapshots, "translated", translated_data')
    /\ UNCHANGED <<configVars, timingVars, now, sessionVars, audioVars, eventVars,
                   translateCalls, fileVars, transcript_data, srt_call,
                   input_data, user_input>>

GetTranscriptData ==
    /\ Len(snapshots) < MaxSnapshots
    /\ snapshots' = Append(snapshots, get_transcript_data)
    /\ UNCHANGED <<configVars, timingVars, now, sessionVars, audioVars, eventVars,
                   translateCalls, fileVars, storeVars, srt_call, input_data,
                   user_input>>

GetTranslatedData ==
    /\ Len(snapshots) < MaxSnapshots
    /\ snapshots' = Append(snapshots, get_translated_data)
    /\ UNCHANGED <<configVars, timingVars, now, sessionVars, audioVars, eventVars,
                   translateCalls, fileVars, storeVars, srt_call, input_data,
                   user_input>>

\* The holder of a returned list appends an item to it or clears it.
MutateSnapshot ==
    /\ \E i \in 1..Len(snapshots), clear \in BOOLEAN :
        LET snap == snapshots[i]
            list == IF clear THEN <<>> ELSE Append(snap.value, <<Hi, FALSE>>)
            held == [snapshots EXCEPT ![i].value = list, ![i].mutated = TRUE]
        IN  /\ ~snap.mutated /\ list # snap.value
            /\ snapshots' =
                IF snap.alias THEN SameObject(held, snap.log, list) ELSE held
            /\ transcript_data' =
                IF snap.alias /\ snap.log = "transcript" THEN list
                ELSE transcript_data
            /\ translated_data' =
                IF snap.alias /\ snap.log = "translated" THEN list
                ELSE translated_data
    /\ UNCHANGED <<configVars, timingVars, now, sessionVars, audioVars, eventVars,
                   translateCalls, fileVars, srt_call, input_data, user_input>>

NextStore ==
    \/ store_transcript_data
    \/ store_translated_data
    \/ GetTranscriptData
    \/ GetTranslatedData
    \/ MutateSnapshot

SpecStore == InitStore /\ [][NextStore]_vars

\* --------------------------------------- generate_srt_subtitle alone
\* Lines an SRT file may hold from earlier sessions or other writers: a
\* cue number, a text of digits, a text of digits between blanks, a text
\* of letters, a blank line and a timing line.
ExistingLines ==
    {IndexLine(3), TextLine(Seven), TextLine(<<" ", "4", "1", " ">>),
     TextLine(Hi), BlankLine, TimingLine(0, 3400)}

RECURSIVE FilesOfLength(_)
FilesOfLength(n) ==
    IF n = 0 THEN {<<>>}
    ELSE {Append(f, l) : f \in FilesOfLength(n - 1), l \in ExistingLines}

ExistingFiles == UNION {FilesOfLength(n) : n \in 0..MaxLines}

\* A SubtitleGenerator is about to call generate_srt_subtitle; the .srt
\* file is missing or empty (no lines) or has content.
InitCue ==
    /\ source_language = "en-US" /\ target_language = "es"
    /\ subtitle_format = "srt" /\ output_format = "none"
    /\ InitRun /\ srtFile \in ExistingFiles
    /\ NoTimingCall
    /\ srt_call = "called"
    /\ input_data = NoInput /\ user_input = NoUserInput /\ snapshots = <<>>

\* generate_srt_subtitle returns.
GenerateSrtAlone ==
    /\ srt_call = "called"
    /\ \E translated_text \in TranscriptTexts, partial_flag \in BOOLEAN :
        srtFile' = generate_srt_subtitle(srtFile, now, translated_text, partial_flag)
    /\ srt_call' = "returned"
    /\ UNCHANGED <<configVars, timingVars, now, sessionVars, audioVars, eventVars,
                   translateCalls, vttFile, transcriptFile, translatedFile,
                   storeVars, input_data, user_input, snapshots>>

NextCue == GenerateSrtAlone

SpecCue == InitCue /\ [][NextCue]_vars

\* ------------------------------------------ calculate_end_time alone
\* The characters of the texts: a letter, a blank, an apostrophe, a comma
\* and a full stop.
TextChars == {"a", " ", "'", ",", "."}

RECURSIVE TextsOfLength(_)
TextsOfLength(n) ==
    IF n = 0 THEN {<<>>}
    ELSE {Append(t, c) : t \in TextsOfLength(n - 1), c \in TextChars}

HelloWorld == <<"H", "e", "l", "l", "o", " ", "w", "o", "r", "l", "d", ".">>

Texts == UNION {TextsOfLength(n) : n \in 0..MaxLen} \cup {HelloWorld}

\* Start times of day: midnight, noon, and the last second of the day.
StartTimes == {0, 12 * 60 * 60 * 1000, ClockStart}

\* A SubtitleGenerator is about to call calculate_end_time(start_time, text).
InitTiming ==
    /\ source_language = "en-US" /\ target_language = "es"
    /\ subtitle_format = "srt" /\ output_format = "none"
    /\ InitSession
    /\ cpc = "called"
    /\ cet_start \in StartTimes /\ cet_text \in Texts
    /\ cet_end = 0
    /\ NoUnitCall

\* calculate_end_time returns.
CalculateEndTime ==
    /\ cpc = "called"
    /\ cet_end' = calculate_end_time(cet_start, cet_text)
    /\ cpc' = "returned"
    /\ UNCHANGED <<configVars, unitVars, now, sessionVars, audioVars, eventVars,
                   translateCalls, fileVars, storeVars, cet_start, cet_text>>

NextTiming == CalculateEndTime

SpecTiming == InitTiming /\ [][NextTiming]_vars

\* ------------------------------------------------- reading the state
\* The subtitle file the session writes.
ConfiguredFile == IF WritesVtt THEN vttFile ELSE srtFile

LinesOfKind(file, kind) == SelectSeq(file, LAMBDA line : line.kind = kind)

\* The cues of a subtitle file, in file order: their texts, start times and
\* (SRT) indexes.
CueTexts(file) ==
    LET ls == LinesOfKind(file, "text") IN [i \in 1..Len(ls) |-> ls[i].text]
CueStarts(file) ==
    LET ls == LinesOfKind(file, "timing") IN [i \in 1..Len(ls) |-> ls[i].start]
CueIndexes(file) ==
    LET ls == LinesOfKind(file, "index") IN [i \in 1..Len(ls) |-> ls[i].n]

\* The alternatives for which a cue was written, and those that were handled
\* to the end, in arrival order.
GotCue(a) == a.outcome \in {"none", "transcript", "translated"}
WithCue == SelectSeq(alts, GotCue)
Final(a) == ~a.is_partial /\ a.outcome = "none"
Finals == SelectSeq(alts, Final)

Returned == spc \in {"returned", "closed"}
TaskFailed == eerr # NoError \/ werr # NoError

\* write_chunks ran to the end of its body: the loop over mic_stream ended
\* and end_stream() was awaited.  mic_stream's loop is `while True`, so no
\* step of the tasks leads here.
EndOfInputSent == wpc = "done"

\* A task that asyncio.gather scheduled and that has neither returned nor
\* raised nor been cancelled.
WriteChunksRunning == wpc \in {"start", "get", "send"}
HandleEventsRunning == epc \in {"waiting", "event", "result"}

ValidConfiguration ==
    /\ source_language \in SourceLanguageCodes
    /\ target_language \in TargetLanguageCodes
    /\ subtitle_format \in SubtitleFormatValues
    /\ output_format \in OutputFormatValues

\* ================================================================ claims

\* C1: a partial result never appends to the in-memory store, and every
\* final alternative handled appends its (text, is_partial) entry to
\* transcript_data (translated_data) when the output mode asks for the
\* transcript (the translation): the store holds exactly the entries of the
\* final alternatives handled so far, in order.
C1_StoreHoldsFinalEntries ==
    /\ transcript_data =
        IF store_transcript_text
        THEN [i \in 1..Len(Finals) |-> <<Finals[i].text, FALSE>>]
        ELSE <<>>
    /\ translated_data =
        IF store_translated_text
        THEN [i \in 1..Len(Finals) |-> <<Finals[i].translated, FALSE>>]
        ELSE <<>>

\* C2: when a task fails mid-stream, basic_transcribe returns the
\* transcript snapshot accumulated so far, and the snapshot is not empty
\* if a final alternative was handled before the failure.
C2_FailureReturnsSnapshot ==
    (Returned /\ TaskFailed) =>
        /\ retval.kind = "data"
        /\ (Finals # <<>> /\ store_transcript_text) => retval.data # <<>>

\* C3: a failed session is surfaced to the caller as an error of the
\* taxonomy that carries its cause: something is raised, and its
\* original_error is the causing error.
C3_FailureSurfacedWithCause ==
    Returned =>
        /\ surfaced.class # "none"
        /\ surfaced.original_error # NoneVal

\* C4: in a fresh SRT file the first cue has index 1 and every later cue an
\* index one greater than the cue before it.
C4_SrtIndexesCountUp ==
    CueIndexes(srtFile) = [i \in 1..Len(CueIndexes(srtFile)) |-> i]

\* C5: after any number of generate_vtt_subtitle calls on a new file, from
\* the generators of one or of several events, the file's first line is the
\* WEBVTT header and no other line is.
C5_VttHeaderOnce ==
    vttFile # <<>> =>
        /\ vttFile[1] = HeaderLine
        /\ {i \in 1..Len(vttFile) : LineContent(vttFile[i]) = LineContent(HeaderLine)}
                = {1}

\* Two cues in the WebVTT file, written by the generators of two events.
C5_Witness ==
    /\ Len(CueTexts(vttFile)) = 2
    /\ Len(alts) = 2 /\ alts[1].event # alts[2].event

\* C6 (as amended): the languages are equivalent when they are equal
\* without regard to case or are the alias en-US -> en.  Then translate_text
\* is never requested and the cue texts and the stored translations are
\* the transcript texts; otherwise translate_text is requested once for
\* every alternative handled.
C6_Equivalent ==
    \/ Lower(source_language) = Lower(target_language)
    \/ (source_language = "en-US" /\ target_language = "en")

C6_TranslateIffLanguagesDiffer ==
    /\ translateCalls = IF C6_Equivalent THEN 0 ELSE Len(alts)
    /\ C6_Equivalent =>
        /\ CueTexts(ConfiguredFile) = [i \in 1..Len(WithCue) |-> WithCue[i].text]
        /\ store_translated_text =>
             translatedFile = [i \in 1..Len(Finals) |-> Finals[i].text]

\* Languages that differ in case only, two alternatives handled, one of
\* them stored.
C6_Witness ==
    /\ source_language = "es" /\ target_language = "ES"
    /\ Len(alts) = 2 /\ Len(translatedFile) = 1 /\ Len(CueTexts(ConfiguredFile)) = 2

\* C6 as stated: equivalent means the same code exactly, or the alias.
C6_ExactMatchOnly ==
    translateCalls =
        IF \/ source_language = target_language
           \/ (source_language = "en-US" /\ target_language = "en")
        THEN 0 ELSE Len(alts)

\* C7: the cues of the configured subtitle file carry start timestamps that
\* never decrease from one cue to the next.
C7_StartsNeverDecrease ==
    LET starts == CueStarts(ConfiguredFile)
    IN  \A i, j \in 1..Len(starts) : i < j => starts[i] <= starts[j]

\* C8: while no handling has failed, the subtitle file holds one cue for
\* every alternative received, partial or final, in order, and the
\* transcript file holds the text of every final alternative once, in
\* order, when the output mode stores transcripts.
C8_OneCuePerAlternative ==
    eerr = NoError =>
        /\ CueTexts(ConfiguredFile) = [i \in 1..Len(alts) |-> alts[i].translated]
        /\ output_format \in {"transcript_text", "both_text"} =>
             transcriptFile =
                LET finals == SelectSeq(alts, LAMBDA a : ~a.is_partial)
                IN  [i \in 1..Len(finals) |-> finals[i].text]

\* The same text received twice as a final result: two cues, two transcript
\* entries.
C8_Witness ==
    /\ eerr = NoError /\ Len(alts) = 2
    /\ alts[1].text = alts[2].text
    /\ ~alts[1].is_partial /\ ~alts[2].is_partial
    /\ Len(CueTexts(ConfiguredFile)) = 2
    /\ Len(transcriptFile) = 2

\* C9: handling an alternative without error appends its text to the
\* transcript file iff it is final and the mode is transcript_text or
\* both_text, appends its translation to the translated file iff it is
\* final and the mode is translated_text or both_text, and changes
\* neither file otherwise; no other step changes the files.
C9_TextFilesFollowMode ==
    [][ IF alts' # alts
        THEN LET a == alts'[Len(alts')]
             IN  a.outcome = "none" =>
                   /\ transcriptFile' =
                        IF ~a.is_partial
                            /\ output_format \in {"transcript_text", "both_text"}
                        THEN Append(transcriptFile, a.text)
                        ELSE transcriptFile
                   /\ translatedFile' =
                        IF ~a.is_partial
                            /\ output_format \in {"translated_text", "both_text"}
                        THEN Append(translatedFile, a.translated)
                        ELSE translatedFile
        ELSE transcriptFile' = transcriptFile /\ translatedFile' = translatedFile
      ]_vars

\* Mode transcript_text: a final alternative left one line in the
\* transcript file and none in the translated file.
C9_Witness ==
    /\ output_format = "transcript_text"
    /\ Len(alts) = 1 /\ ~alts[1].is_partial /\ alts[1].outcome = "none"
    /\ transcriptFile = <<alts[1].text>>
    /\ translatedFile = <<>>

\* C10: under every interleaving of the capture callback with the loop,
\* the frames sent to the recognition stream are the first frames captured,
\* each once and in capture order, and the frames not yet sent wait in
\* capture order, with their status, in write_chunks' hand, in input_queue
\* and among the loop's pending callbacks: no frame is lost, duplicated or
\* reordered, whatever its status.
C10_FramesSentInCaptureOrder ==
    LET inTransit == (IF inHand = NoFrame THEN <<>> ELSE <<inHand>>)
                        \o input_queue \o loopReady
    IN  /\ sentAudio = [i \in 1..Len(sentAudio) |-> captured[i].seq]
        /\ Len(sentAudio) <= Len(captured)
        /\ inTransit = SubSeq(captured, Len(sentAudio) + 1, Len(captured))

\* Two frames sent, the first one captured with a non-zero status.
C10_Witness ==
    /\ sentAudio = <<1, 2>>
    /\ captured[1].status = "input overflow"

\* C11: basic_transcribe returns to its caller only after write_chunks and
\* handle_events have both finished: in no state has the session returned
\* while one of the two tasks is still running.
C11_ReturnsAfterBothTasks ==
    spc = "returned" => ~WriteChunksRunning /\ ~HandleEventsRunning

\* C12: once the capture bridge has terminated (mic_stream is over and the
\* device stopped), write_chunks has sent end_stream after the frames and
\* has finished.
C12_EndOfInputOnTermination ==
    device = "stopped" => EndOfInputSent

\* C17: a configuration with a value outside the allowed sets (a missing
\* subtitle format or output mode included) never gets past construction:
\* no recognition stream is started, no device opened, no translation
\* requested.
C17_InvalidConfigurationNeverStreams ==
    ~ValidConfiguration =>
        /\ spc = "starting"
        /\ device = "closed"
        /\ translateCalls = 0

\* C18: in no state has basic_transcribe returned to its caller while the
\* capture device that mic_stream started is still started.
C18_DeviceStoppedOnReturn ==
    spc = "returned" => device # "started"

\* C14: once the handling of an alternative has failed, no later
\* alternative and no later event is handled, nothing is translated or
\* written again (no retry), the task stays failed and the session, once
\* returned, is not started again.
C14_LastFailed == alts # <<>> /\ alts[Len(alts)].outcome # "none"

C14_FailureIsTerminal ==
    [][ C14_LastFailed =>
            /\ alts' = alts
            /\ nEvents' = nEvents
            /\ translateCalls' = translateCalls
            /\ fileVars' = fileVars
            /\ epc' = "failed"
            /\ spc \in {"returned", "closed"} => spc' \in {"returned", "closed"}
      ]_vars

\* The first alternative failed, with room left for alternatives and
\* events, and the session ran to its end without handling any.
C14_Witness ==
    /\ Len(alts) = 1 /\ alts[1].outcome # "none"
    /\ nEvents = 1 /\ nEvents < MaxEvents /\ Len(alts) < MaxCues
    /\ epc = "failed" /\ spc = "closed"

\* C15 (as amended): calculate_end_time returns the time of day of start
\* plus duration, past 24:00:00 counted from 00:00:00 again, where
\* duration = word_count * 0.4 s + punctuation_count * 1.2 s +
\* sentence_count * 3 s, word_count is the number of maximal runs of word
\* characters (letters, digits, underscore) in the text, punctuation_count
\* the number of . , ? ! and sentence_count the number of segments between
\* . ! ? ("Hello world." adds 8.0 s, the empty text 3 s).
C15_RunsEndingIn(t, isIn(_)) ==
    Len(SelectSeq([i \in 1..Len(t) |-> i],
                  LAMBDA i : isIn(t[i]) /\ (i = Len(t) \/ ~isIn(t[i + 1]))))

C15_Duration(words, t) ==
    words * 400
      + Len(SelectSeq(t, LAMBDA c : c \in {".", ",", "?", "!"})) * 1200
      + (Len(SelectSeq(t, LAMBDA c : c \in {".", "!", "?"})) + 1) * 3000

C15_EndTimeFormula ==
    cpc = "returned" =>
        /\ cet_end =
            (cet_start + C15_Duration(
                C15_RunsEndingIn(cet_text, LAMBDA c : c \in WordChars), cet_text))
              % MsPerDay
        /\ cet_text = HelloWorld => cet_end = (cet_start + 8000) % MsPerDay
        /\ cet_text = <<>> => cet_end = (cet_start + 3000) % MsPerDay

\* "a'a" at noon: two words and one segment, 3.8 s.
C15_Witness ==
    /\ cpc = "returned"
    /\ cet_text = <<"a", "'", "a">>
    /\ cet_start = 12 * 60 * 60 * 1000
    /\ cet_end = cet_start + 3800

\* C15 as stated: the result is start plus duration with word_count the
\* number of whitespace-delimited tokens.
C15_WhitespaceTokens ==
    cpc = "returned" =>
        cet_end = cet_start + C15_Duration(
                    C15_RunsEndingIn(cet_text, LAMBDA c : c # " "), cet_text)

\* C16: in every cue written to a subtitle file the end timestamp is later
\* than the start timestamp.
C16_EndAfterStart ==
    \A file \in {vttFile, srtFile} :
        \A i \in 1..Len(file) :
            file[i].kind = "timing" => file[i].end > file[i].start

\* C19: the capture callback completes whatever the state of the consumer:
\* while the device is started it can always deliver its frame, with the
\* loop busy in an event or not and however many frames wait; and the
\* loop's put_nowait of a pending frame never fails for the queue's
\* occupancy.
C19_CallbackNeverWaits ==
    /\ (device = "started" /\ Len(captured) < MaxFrames) => ENABLED Callback
    /\ (loopReady # <<>> /\ LoopFree /\ spc # "closed") => ENABLED LoopRunCallback

\* Every frame was delivered while the loop was busy handling an
\* alternative and none has been taken yet.
C19_Witness ==
    /\ epc = "result" /\ translateCalls > 0
    /\ Len(captured) = MaxFrames
    /\ Len(loopReady) = MaxFrames

\* C20 (as amended): the frames buffered between capture and the
\* recognition stream (input_queue and the pending loop callbacks) are the
\* frames captured and not yet taken by write_chunks; their number has no
\* fixed bound, it grows as long as capture runs ahead of the consumer.
C20_Buffered == Len(input_queue) + Len(loopReady)

C20_BufferIsCaptureLead ==
    C20_Buffered =
        Len(captured) - Len(sentAudio) - (IF inHand = NoFrame THEN 0 ELSE 1)

\* Every frame captured is still buffered: the consumer took none.
C20_Witness ==
    /\ C20_Buffered = MaxFrames
    /\ sentAudio = <<>> /\ inHand = NoFrame /\ wpc = "get"

\* C20 as stated: the number of frames buffered stays below a fixed bound
\* (here the number of frames the device delivers).
C20_BufferBelowBound ==
    C20_Buffered < MaxFrames

\* C22: the index of the cue generate_srt_subtitle writes is one more than
\* the value of the last integer-only line of the file (a line of digits,
\* blanks around them aside), and 1 when the file is missing or empty or
\* has no such line.
C22_IntegerOnly(line) ==
    \/ line.kind = "index"
    \/ /\ line.kind = "text"
       /\ LET d == SelectSeq(line.text, LAMBDA c : c # " ")
          IN  /\ d # <<>>
              /\ \A i \in 1..Len(d) : d[i] \in Digits
              /\ \E i \in 0..Len(line.text) : SubSeq(line.text, i + 1, i + Len(d)) = d

C22_ValueOf(line) ==
    IF line.kind = "index" THEN line.n
    ELSE IntOf(SelectSeq(line.text, LAMBDA c : c # " "))

C22_NextIndex(file) ==
    LET ints == SelectSeq(file, C22_IntegerOnly)
    IN  IF ints = <<>> THEN 1 ELSE C22_ValueOf(ints[Len(ints)]) + 1

C22_IndexFollowsLastInteger ==
    [][ srtFile' # srtFile =>
            /\ Len(srtFile') = Len(srtFile) + 4
            /\ SubSeq(srtFile', 1, Len(srtFile)) = srtFile
            /\ srtFile'[Len(srtFile) + 1] = IndexLine(C22_NextIndex(srtFile))
      ]_vars

\* A file whose last integer-only line is the text " 41 ": the cue written
\* is number 42.
C22_Witness ==
    /\ srt_call = "returned"
    /\ Len(srtFile) = 6
    /\ srtFile[1] = IndexLine(3)
    /\ srtFile[2] = TextLine(<<" ", "4", "1", " ">>)
    /\ srtFile[3] = IndexLine(42)

\* C26: from_input_data resolves every value of SourceLanguage and of
\* TargetLanguage to itself, and fails for every code that is no value of
\* the enumeration.
C26_IsValue(enum_class, code) == \E i \in 1..Len(enum_class) : enum_class[i] = code

C26_CodesResolveToThemselves ==
    user_input.status # "none" =>
        /\ C26_IsValue(TargetLanguageValues, input_data.target_language) =>
             (user_input.status = "built" =>
                user_input.target_language = input_data.target_language)
        /\ C26_IsValue(SourceLanguageValues, input_data.source_language) =>
             (user_input.status = "built" =>
                user_input.source_language = input_data.source_language)
        /\ ( \/ ~C26_IsValue(TargetLanguageValues, input_data.target_language)
             \/ ~C26_IsValue(SourceLanguageValues, input_data.source_language) )
             => user_input.status = "failed"

\* C23: whatever goes wrong while a transcript event is handled, the
\* exception that leaves handle_transcript_event is a TranscriptionError.
C23_HandlerRaises ==
    /\ epc # "failed" /\ epc' = "failed"
    /\ epc \in {"event", "result"} \/ nEvents' = nEvents + 1

C23_OnlyTranscriptionErrorLeaves ==
    [][C23_HandlerRaises => eerr'.class = "TranscriptionError"]_vars

\* C24: the subtitle file does not depend on is_partial: whenever an
\* alternative is handled, the file afterwards is the file before with the
\* cue of that alternative appended as generate_vtt_subtitle or
\* generate_srt_subtitle appends it for a partial result and for a final
\* result alike, so that the file is the same whichever way the results of a
\* session are flagged; a partial cue is appended and replaces nothing.
C24_Cue(file, a, flag) ==
    IF WritesVtt
    THEN generate_vtt_subtitle(file, a.at, a.translated, flag)
    ELSE generate_srt_subtitle(file, a.at, a.translated, flag)

C24_Appended(a) ==
    IF GotCue(a)
    THEN /\ \A flag \in BOOLEAN : ConfiguredFile' = C24_Cue(ConfiguredFile, a, flag)
         /\ Len(ConfiguredFile') > Len(ConfiguredFile)
    ELSE ConfiguredFile' = ConfiguredFile

C25_IsPrefix(f, g) == Len(f) <= Len(g) /\ SubSeq(g, 1, Len(f)) = f

C25_WrittenContentRemains ==
    [][ /\ C25_IsPrefix(vttFile, vttFile')
        /\ C25_IsPrefix(srtFile, srtFile')
        /\ C25_IsPrefix(transcriptFile, transcriptFile')
        /\ C25_IsPrefix(translatedFile, translatedFile')
      ]_vars

C25_Witness ==
    /\ epc = "failed" /\ eerr.class = "TranscriptionError"
    /\ Len(alts) = 2
    /\ alts[1].outcome = "none" /\ ~alts[1].is_partial
    /\ alts[2].outcome = "translated"
    /\ transcriptFile = <<alts[1].text, alts[2].text>>
    /\ translatedFile = <<alts[1].translated>>
    /\ Len(LinesOfKind(ConfiguredFile, "text")) = 2

\* C27: an alternative is handled in the order translate, write cue,
\* persist transcript, persist translation; a step that fails keeps every
\* later step from running, and what the earlier steps wrote stays in the
\* files: nothing is written when the translation fails, no text entry when
\* the cue fails, the cue stays when storing the transcript fails, the cue
\* and the transcript entry stay when storing the translation fails.
C27_Handled == alts' # alts
C27_Last == alts'[Len(alts')]
C27_CueAppended ==
    /\ Len(ConfiguredFile') > Len(ConfiguredFile)
    /\ SubSeq(ConfiguredFile', 1, Len(ConfiguredFile)) = ConfiguredFile
    /\ \E i \in Len(ConfiguredFile) + 1 .. Len(ConfiguredFile') :
        ConfiguredFile'[i] = TextLine(C27_Last.translated)

C27_FailureKeepsEarlierSteps ==
    [][ C27_Handled =>
          /\ C27_Last.outcome = "translate" => fileVars' = fileVars
          /\ C27_Last.outcome = "subtitle" =>
                transcriptFile' = transcriptFile /\ translatedFile' = translatedFile
          /\ C27_Last.outcome = "transcript" =>
                C27_CueAppended /\ translatedFile' = translatedFile
          /\ C27_Last.outcome = "translated" =>
                /\ C27_CueAppended
                /\ store_transcript_text =>
                     transcriptFile' = Append(transcriptFile, C27_Last.text)
      ]_vars

C27_Witness ==
    /\ alts # <<>> /\ alts[Len(alts)].outcome = "translated"
    /\ output_format = "both_text"
    /\ transcriptFile # <<>>
    /\ transcriptFile[Len(transcriptFile)] = alts[Len(alts)].text
    /\ Len(translatedFile) < Len(transcriptFile)
    /\ ConfiguredFile # <<>>

\* C27 as stated: an alternative whose handling fails at any step leaves
\* nothing in any file.
C27_AllOrNothing ==
    [][C27_Handled /\ C27_Last.outcome # "none" => fileVars' = fileVars]_vars

\* C28: with output mode both_text the translated file is entry by entry
\* the translation of the transcript file, and the transcript file is at
\* most one entry longer: longer only after the handler failed storing the
\* translation of the last alternative.
C28_TranslationOf(entry) ==
    IF same_languages THEN entry ELSE TranslatedText(entry)

C28_TextFilesPaired ==
    output_format = "both_text" =>
        /\ Len(translatedFile) <= Len(transcriptFile)
        /\ Len(transcriptFile) <= Len(translatedFile) + 1
        /\ \A i \in 1..Len(translatedFile) :
            translatedFile[i] = C28_TranslationOf(transcriptFile[i])
        /\ Len(transcriptFile) # Len(translatedFile) =>
            /\ epc = "failed"
            /\ alts # <<>> /\ alts[Len(alts)].outcome = "translated"

C28_Witness ==
    /\ output_format = "both_text" /\ ~same_languages
    /\ epc = "failed"
    /\ Len(transcriptFile) = 2 /\ Len(translatedFile) = 1
    /\ translatedFile[1] = TranslatedText(transcriptFile[1])
    /\ translatedFile[1] # transcriptFile[1]

\* C28 as stated: with both_text the two text files always hold the same
\* number of entries.
C28_SameNumberOfEntries ==
    output_format = "both_text" =>
        /\ Len(translatedFile) = Len(transcriptFile)
        /\ \A i \in 1..Len(translatedFile) :
            translatedFile[i] = C28_TranslationOf(transcriptFile[i])

\* C29: under fair scheduling, once the service has closed the inbound
\* stream or either task has failed, basic_transcribe returns.
C29_SessionTerminates ==
    (epc = "done" \/ epc = "failed" \/ wpc = "failed") ~> Returned

\* C30: the store is append-only and its getters hand out copies: a store
\* call appends its pair to its own log and leaves the other log alone, a
\* getter returns the log as it is, in insertion order, every snapshot taken
\* earlier is a prefix of the log and of every later snapshot of that log,
\* and a change made to a returned list changes neither log.
C30_Log(log) == IF log = "transcript" THEN transcript_data ELSE translated_data

C30_Snapshots ==
    /\ \A i \in 1..Len(snapshots) :
        C25_IsPrefix(snapshots[i].taken, C30_Log(snapshots[i].log))
    /\ \A i, j \in 1..Len(snapshots) :
        i < j /\ snapshots[i].log = snapshots[j].log =>
            C25_IsPrefix(snapshots[i].taken, snapshots[j].taken)

C30_Step ==
    /\ C25_IsPrefix(transcript_data, transcript_data')
    /\ C25_IsPrefix(translated_data, translated_data')
    /\ Len(transcript_data') <= Len(transcript_data) + 1
    /\ Len(translated_data') <= Len(translated_data) + 1
    /\ transcript_data' # transcript_data => translated_data' = translated_data
    /\ Len(snapshots') > Len(snapshots) =>
        /\ storeVars' = storeVars
        /\ snapshots'[Len(snapshots')].value
            = C30_Log(snapshots'[Len(snapshots')].log)
    /\ (\E i \in 1..Len(snapshots) : snapshots'[i] # snapshots[i]) =>
        storeVars' = storeVars

C30_AppendOnlyAndIsolated ==
    [][C30_Step /\ C30_Snapshots']_vars

C30_Witness ==
    /\ Len(snapshots) = 2
    /\ snapshots[1].log = "transcript" /\ snapshots[2].log = "transcript"
    /\ Len(snapshots[1].taken) = 1 /\ Len(snapshots[2].taken) = 2
    /\ snapshots[1].mutated /\ snapshots[1].value = <<>>
    /\ transcript_data = snapshots[2].taken
    /\ translated_data # <<>>

====
